---- MODULE Spec2Model ----
(***************************************************************************)
(* Model of parse_bodymap.py: a one-shot pipeline that loads a JSON log of *)
(* body-contact points, flattens it, tabulates it, renders three multi-    *)
(* panel heatmap images and prints a report.                               *)
(*                                                                         *)
(* Coordinates are rationals k/Scale, stored as the integer k, so that the *)
(* edges of both bin grids (15 and 12 bins over [0,1]) are integers.       *)
(***************************************************************************)
EXTENDS Integers, Sequences, FiniteSets, TLC

VARIABLES argv, files, pc, err, opened, data, points, df, stdout, cats, axes, idx, saved

vars == <<argv, files, pc, err, opened, data, points, df, stdout, cats, axes, idx, saved>>

(***************************************************************************)
(* Bounds of the explored inputs.                                          *)
(***************************************************************************)
MaxParticipants == 2
MaxPoints == 3

(***************************************************************************)
(* Program constants.                                                      *)
(***************************************************************************)
BinsFigure == 15
BinsCategory == 12
NumAxes == 2

Scale == 4 * BinsFigure

\* An element of data['data']: None, or a mapping from timestamp to point
\* whose items are iterated in document order; items[i] is the point of
\* the i-th (timestamp, point) pair.
Null == [isNone |-> TRUE, items |-> <<>>]
Mapping(items) == [isNone |-> FALSE, items |-> items]

(***************************************************************************)
(* Input vocabulary: the point records the explored JSON documents are     *)
(* built from.  xNorm/yNorm are in units of 1/Scale, confidence in 1/100.  *)
(***************************************************************************)
Pt(p, f, c, d, x, y, conf) ==
    [participantId |-> p, figure |-> f, contactType |-> c, direction |-> d,
     xNorm |-> x, yNorm |-> y, confidence |-> conf]

PointPool ==
    { Pt("p1", "arm",  "pat",    "touched",    30, 30, 90),
      Pt("p1", "leg",  "stroke", "touched_by", 60, 60, 80),
      Pt("p2", "arm",  "hit",    "pushed",     61, 10, 70),
      Pt("p2", "head", "pat",    "touched_by",  0, -1, 65) }

BackgroundFigures == {"arm"}

ParticipantsUpTo(t) ==
    {Null} \cup UNION { { Mapping(m) : m \in [1..k -> PointPool] } : k \in 0..t }

EntryCount(p) == Len(p.items)

RECURSIVE DataUpTo(_, _)
DataUpTo(m, t) ==
    IF m = 0 THEN { <<>> }
    ELSE { <<>> } \cup
         UNION { { <<p>> \o rest : rest \in DataUpTo(m - 1, t - EntryCount(p)) }
                 : p \in ParticipantsUpTo(t) }

Inputs == DataUpTo(MaxParticipants, MaxPoints)

(***************************************************************************)
(* Flattener (lines 22-28).                                                *)
(***************************************************************************)
\* A flattener that stops at the first None element instead of skipping it.
RECURSIVE FlattenUntilNone(_)
FlattenUntilNone(d) ==
    IF d = <<>> \/ Head(d).isNone THEN <<>>
    ELSE Head(d).items \o FlattenUntilNone(Tail(d))

RECURSIVE Flatten(_)
Flatten(d) ==
    IF d = <<>> THEN <<>>
    ELSE IF Head(d).isNone THEN Flatten(Tail(d))
         ELSE Head(d).items \o Flatten(Tail(d))

(***************************************************************************)
(* Tabulator (line 31) and the column operations the stages use.           *)
(***************************************************************************)
RECURSIVE ColumnsOf(_)
ColumnsOf(recs) ==
    IF recs = <<>> THEN {} ELSE DOMAIN Head(recs) \cup ColumnsOf(Tail(recs))

ExpectedColumns ==
    {"participantId", "figure", "contactType", "direction", "xNorm", "yNorm", "confidence"}

\* A table built with its columns named up front, as DataFrame(points, columns=...).
DataFrameWithColumns(recs) == [columns |-> ExpectedColumns, rows |-> recs]

DataFrame(recs) == [columns |-> ColumnsOf(recs), rows |-> recs]

EmptyFrame == [columns |-> {}, rows |-> <<>>]

HasColumn(frame, c) == c \in frame.columns

\* A unique() that keeps every occurrence.
UniqueSeqKeepAll(s, seen) == s

RECURSIVE UniqueSeq(_, _)
UniqueSeq(s, seen) ==
    IF s = <<>> THEN <<>>
    ELSE IF Head(s) \in seen THEN UniqueSeq(Tail(s), seen)
         ELSE <<Head(s)>> \o UniqueSeq(Tail(s), seen \cup {Head(s)})

Column(frame, c) == [i \in 1..Len(frame.rows) |-> frame.rows[i][c]]

Unique(frame, c) == UniqueSeq(Column(frame, c), {})

RowsWhere(frame, c, v) == SelectSeq(frame.rows, LAMBDA r : r[c] = v)

(***************************************************************************)
(* Aggregator/Binner: np.histogram2d(x, y, bins=N, range=[[0,1],[0,1]]).   *)
(* Each axis gets the N+1 edges linspace(0, 1, N+1); a value's bin number  *)
(* is the number of edges <= it (searchsorted, side='right'), lowered by   *)
(* one when the value equals the last edge; the counts are taken over the  *)
(* (N+2) x (N+2) grid that includes the outlier bins 0 and N+1, and the    *)
(* result is the core of that grid.  The grid is stored by its non-zero    *)
(* cells: a cell outside DOMAIN counts holds 0.                            *)
(***************************************************************************)
Edges(N) == [i \in 1..(N + 1) |-> ((i - 1) * Scale) \div N]

SearchSortedRight(edges, v) == Cardinality({ i \in DOMAIN edges : edges[i] <= v })

BinNumberNoEdgeFix(v, N) == SearchSortedRight(Edges(N), v)

BinNumber(v, N) ==
    LET n == SearchSortedRight(Edges(N), v)
    IN  IF v = Edges(N)[N + 1] THEN n - 1 ELSE n

Histogram2d(rows, N) ==
    LET Ncount == [k \in 1..Len(rows) |->
                     <<BinNumber(rows[k].xNorm, N), BinNumber(rows[k].yNorm, N)>>]
        hit    == { Ncount[k] : k \in 1..Len(rows) }
        hist   == [c \in hit |-> Cardinality({ k \in 1..Len(rows) : Ncount[k] = c })]
        core   == { c \in hit : c[1] \in 1..N /\ c[2] \in 1..N }
    IN  [bins |-> N, counts |-> [c \in core |-> hist[c]]]

BinCount(h, i, j) == IF <<i, j>> \in DOMAIN h.counts THEN h.counts[<<i, j>>] ELSE 0

(***************************************************************************)
(* Renderer helpers.                                                       *)
(***************************************************************************)
Capitalize(s) ==
    CASE s = "arm"    -> "Arm"
      [] s = "leg"    -> "Leg"
      [] s = "head"   -> "Head"
      [] s = "pat"    -> "Pat"
      [] s = "stroke" -> "Stroke"
      [] s = "hit"    -> "Hit"
      [] OTHER        -> s

direction_labels_extended ==
    [touched_by |-> "I was touched", touched |-> "I touched", pushed |-> "I pushed"]

direction_labels_short == [touched_by |-> "I was touched"]

direction_labels == [touched_by |-> "I was touched", touched |-> "I touched"]

PathExists(figure) == figure \in files

BackgroundAlwaysImage(figure) == "image"

\* os.path.exists(image_path), then imshow(img) or set_facecolor('lightgray')
Background(figure) == IF PathExists(figure) THEN "image" ELSE "lightgray"

OpenedBy(figure) == IF PathExists(figure) THEN {figure} ELSE {}

Scatter(rows) == [k \in 1..Len(rows) |-> <<rows[k].xNorm, rows[k].yNorm>>]

NoTitle == [label |-> "", points |-> 0]
NoHeatmap == [bins |-> 0, counts |-> <<>>]

\* An axes object as plt.subplots returns it: nothing drawn on it yet.
BlankAxes ==
    [category |-> "", image_path |-> "", background |-> "none",
     heatmap |-> NoHeatmap, scatter |-> <<>>, title |-> NoTitle]

Subplots(n) == [i \in 1..n |-> BlankAxes]

\* The panel as it stands before set_title: background, heatmap, scatter.
Drawn(category, figure, rows, N) ==
    [category |-> category, image_path |-> figure, background |-> Background(figure),
     heatmap |-> Histogram2d(rows, N), scatter |-> Scatter(rows), title |-> NoTitle]

WithTitle(panel, label, n) == [panel EXCEPT !.title = [label |-> label, points |-> n]]

NoError == [kind |-> "none", line |-> 0, key |-> ""]
Error(kind, line, key) == [kind |-> kind, line |-> line, key |-> key]

Out(tag, value) == [tag |-> tag, value |-> value]

(***************************************************************************)
(* Reporter helpers (lines 220-230).                                       *)
(***************************************************************************)
ValueCounts(frame, c) ==
    LET vals == Unique(frame, c)
    IN  [v \in { vals[i] : i \in 1..Len(vals) } |-> Len(RowsWhere(frame, c, v))]

RECURSIVE SumConfidence(_)
SumConfidence(rows) ==
    IF rows = <<>> THEN 0 ELSE Head(rows).confidence + SumConfidence(Tail(rows))

\* mean().round(2) of values held in hundredths: round half to even.
MeanRounded(rows) ==
    LET n == Len(rows)
        q == SumConfidence(rows) \div n
        r == SumConfidence(rows) % n
    IN  IF 2 * r < n THEN q
        ELSE IF 2 * r > n THEN q + 1
        ELSE IF q % 2 = 0 THEN q ELSE q + 1

MeanByContactType(frame) ==
    LET vals == Unique(frame, "contactType")
    IN  [v \in { vals[i] : i \in 1..Len(vals) } |->
            MeanRounded(RowsWhere(frame, "contactType", v))]

DirectionLines(frame, dirs) ==
    [i \in 1..Len(dirs) |->
        Out("direction_count",
            [label |-> direction_labels[dirs[i]],
             count |-> Len(RowsWhere(frame, "direction", dirs[i]))])]

\* The directions the report loop prints before it stops: all of them, or
\* those before the first one direction_labels does not hold.
RECURSIVE KnownPrefix(_)
KnownPrefix(dirs) ==
    IF dirs = <<>> \/ Head(dirs) \notin DOMAIN direction_labels THEN <<>>
    ELSE <<Head(dirs)>> \o KnownPrefix(Tail(dirs))

(***************************************************************************)
(* The run.                                                                *)
(***************************************************************************)
Init ==
    /\ argv \in { <<"parse_bodymap.py">>, <<"parse_bodymap.py", "log.json">> }
    /\ files \in SUBSET BackgroundFigures
    /\ pc = "start"
    /\ err = NoError
    /\ opened = {}
    /\ data = <<>>
    /\ points = <<>>
    /\ df = EmptyFrame
    /\ stdout = <<>>
    /\ cats = <<>>
    /\ axes = <<>>
    /\ idx = 0
    /\ saved = <<>>

MissingArgumentBelowThree == Len(argv) < 3

\* line 12: len(sys.argv) < 2
MissingArgument == Len(argv) < 2

\* lines 12-14: no path argument
Usage ==
    /\ pc = "start"
    /\ MissingArgument
    /\ stdout' = Append(stdout, Out("usage", argv[1]))
    /\ err' = Error("SystemExit", 14, "1")
    /\ pc' = "exited"
    /\ UNCHANGED <<argv, files, opened, data, points, df, cats, axes, idx, saved>>

\* line 16
ReadArgs ==
    /\ pc = "start"
    /\ ~MissingArgument
    /\ pc' = "load"
    /\ UNCHANGED <<argv, files, err, opened, data, points, df, stdout, cats, axes, idx, saved>>

\* lines 18-19: the document read is any of the explored inputs
Load ==
    /\ pc = "load"
    /\ \E d \in Inputs : data' = d
    /\ opened' = opened \cup {argv[2]}
    /\ pc' = "flatten"
    /\ UNCHANGED <<argv, files, err, points, df, stdout, cats, axes, idx, saved>>

\* lines 18-19: open() or json.load() raises
LoadFails ==
    /\ pc = "load"
    /\ \E e \in { Error("FileNotFoundError", 18, argv[2]),
                  Error("JSONDecodeError", 19, argv[2]) } :
          /\ err' = e
          /\ opened' = IF e.kind = "JSONDecodeError" THEN opened \cup {argv[2]} ELSE opened
    /\ pc' = "aborted"
    /\ UNCHANGED <<argv, files, data, points, df, stdout, cats, axes, idx, saved>>

\* lines 22-28
FlattenData ==
    /\ pc = "flatten"
    /\ points' = Flatten(data)
    /\ pc' = "tabulate"
    /\ UNCHANGED <<argv, files, err, opened, data, df, stdout, cats, axes, idx, saved>>

\* line 31
Tabulate ==
    /\ pc = "tabulate"
    /\ df' = DataFrame(points)
    /\ pc' = "summary"
    /\ UNCHANGED <<argv, files, err, opened, data, points, stdout, cats, axes, idx, saved>>

SummaryColumns == <<"participantId", "figure", "contactType", "direction">>

\* The summary lines printed for the first n of the four columns.
SummaryLines(frame, n) ==
    [i \in 1..n |-> Out(SummaryColumns[i], Unique(frame, SummaryColumns[i]))]

\* How many of the four column lines are printed before a missing column stops it.
RECURSIVE ColumnsPresent(_, _)
ColumnsPresent(frame, i) ==
    IF i > Len(SummaryColumns) \/ ~HasColumn(frame, SummaryColumns[i]) THEN 0
    ELSE 1 + ColumnsPresent(frame, i + 1)

\* lines 33-38
Summary ==
    /\ pc = "summary"
    /\ LET n == ColumnsPresent(df, 1)
           head == <<Out("summary_header", ""), Out("total_points", Len(df.rows))>>
       IN  /\ stdout' = stdout \o head \o SummaryLines(df, n)
           /\ IF n < Len(SummaryColumns)
              THEN /\ err' = Error("KeyError", 34 + n + 1, SummaryColumns[n + 1])
                   /\ pc' = "aborted"
              ELSE /\ err' = err
                   /\ pc' = "figures"
    /\ UNCHANGED <<argv, files, opened, data, points, df, cats, axes, idx, saved>>

\* lines 41-46 (num_figures >= 1 here: an empty table never gets this far)
FiguresSetup ==
    /\ pc = "figures"
    /\ cats' = Unique(df, "figure")
    /\ axes' = Subplots(Len(Unique(df, "figure")))
    /\ idx' = 1
    /\ pc' = "figure_loop"
    /\ UNCHANGED <<argv, files, err, opened, data, points, df, stdout, saved>>

\* lines 48-102: one iteration of the per-figure loop
FigurePanel ==
    /\ pc = "figure_loop"
    /\ idx <= Len(cats)
    /\ LET figure == cats[idx]
           figure_data == RowsWhere(df, "figure", figure)
       IN  /\ axes' = [axes EXCEPT ![idx] =
                         WithTitle(Drawn(figure, figure, figure_data, BinsFigure),
                                   Capitalize(figure), Len(figure_data))]
           /\ opened' = opened \cup OpenedBy(figure)
           /\ stdout' = Append(stdout,
                               Out(IF PathExists(figure) THEN "loaded" ELSE "not_found",
                                   figure))
    /\ idx' = idx + 1
    /\ UNCHANGED <<argv, files, pc, err, data, points, df, cats, saved>>

Image(name) == [name |-> name, panels |-> axes]

\* lines 104-106
FigureSave ==
    /\ pc = "figure_loop"
    /\ idx > Len(cats)
    /\ saved' = Append(saved, Image("heatmaps_on_figures.png"))
    /\ stdout' = Append(stdout, Out("saved", "heatmaps_on_figures.png"))
    /\ pc' = "contacts"
    /\ UNCHANGED <<argv, files, err, opened, data, points, df, cats, axes, idx>>

\* lines 109-111
ContactSetup ==
    /\ pc = "contacts"
    /\ axes' = Subplots(NumAxes)
    /\ cats' = Unique(df, "contactType")
    /\ idx' = 1
    /\ pc' = "contact_loop"
    /\ UNCHANGED <<argv, files, err, opened, data, points, df, stdout, saved>>

\* lines 116 / 174: the figure of the subset's first row
FirstFigure(rows) == rows[1].figure

\* lines 120, 122 / 178, 180: the first use of axes[idx] in the iteration
NoAxes(figure, lineImage, lineGray) ==
    Error("IndexError", IF PathExists(figure) THEN lineImage ELSE lineGray, "axes")

\* lines 112-155: one iteration of the per-contact-type loop
ContactPanel ==
    /\ pc = "contact_loop"
    /\ idx <= Len(cats)
    /\ idx <= Len(axes)
    /\ LET contact_type == cats[idx]
           contact_data == RowsWhere(df, "contactType", contact_type)
           figure == FirstFigure(contact_data)
       IN  /\ axes' = [axes EXCEPT ![idx] =
                         WithTitle(Drawn(contact_type, figure, contact_data, BinsCategory),
                                   Capitalize(contact_type), Len(contact_data))]
           /\ opened' = opened \cup OpenedBy(figure)
    /\ idx' = idx + 1
    /\ UNCHANGED <<argv, files, pc, err, data, points, df, stdout, cats, saved>>

\* The same iteration with the error swallowed: it is noted and the loop goes on.
ContactPanelNoAxesSwallowed ==
    /\ pc = "contact_loop"
    /\ idx <= Len(cats)
    /\ idx > Len(axes)
    /\ err' = NoAxes(RowsWhere(df, "contactType", cats[idx])[1].figure, 120, 122)
    /\ idx' = idx + 1
    /\ UNCHANGED <<argv, files, pc, opened, data, points, df, stdout, cats, axes, saved>>

\* lines 112-122: a third contact type finds no axes
ContactPanelNoAxes ==
    /\ pc = "contact_loop"
    /\ idx <= Len(cats)
    /\ idx > Len(axes)
    /\ LET figure == FirstFigure(RowsWhere(df, "contactType", cats[idx]))
       IN  /\ opened' = opened \cup OpenedBy(figure)
           /\ err' = NoAxes(figure, 120, 122)
    /\ pc' = "aborted"
    /\ UNCHANGED <<argv, files, data, points, df, stdout, cats, axes, idx, saved>>

\* lines 157-159
ContactSave ==
    /\ pc = "contact_loop"
    /\ idx > Len(cats)
    /\ saved' = Append(saved, Image("heatmaps_by_contacttype.png"))
    /\ stdout' = Append(stdout, Out("saved", "heatmaps_by_contacttype.png"))
    /\ pc' = "directions"
    /\ UNCHANGED <<argv, files, err, opened, data, points, df, cats, axes, idx>>

\* lines 162-168
DirectionSetup ==
    /\ pc = "directions"
    /\ axes' = Subplots(NumAxes)
    /\ cats' = Unique(df, "direction")
    /\ idx' = 1
    /\ pc' = "direction_loop"
    /\ UNCHANGED <<argv, files, err, opened, data, points, df, stdout, saved>>

\* lines 170-213: one iteration of the per-direction loop
DirectionPanel ==
    /\ pc = "direction_loop"
    /\ idx <= Len(cats)
    /\ idx <= Len(axes)
    /\ cats[idx] \in DOMAIN direction_labels
    /\ LET direction == cats[idx]
           direction_data == RowsWhere(df, "direction", direction)
           figure == FirstFigure(direction_data)
       IN  /\ axes' = [axes EXCEPT ![idx] =
                         WithTitle(Drawn(direction, figure, direction_data, BinsCategory),
                                   direction_labels[direction], Len(direction_data))]
           /\ opened' = opened \cup OpenedBy(figure)
    /\ idx' = idx + 1
    /\ UNCHANGED <<argv, files, pc, err, data, points, df, stdout, cats, saved>>

\* lines 170-180: a third direction finds no axes
DirectionPanelNoAxes ==
    /\ pc = "direction_loop"
    /\ idx <= Len(cats)
    /\ idx > Len(axes)
    /\ LET figure == FirstFigure(RowsWhere(df, "direction", cats[idx]))
       IN  /\ opened' = opened \cup OpenedBy(figure)
           /\ err' = NoAxes(figure, 178, 180)
    /\ pc' = "aborted"
    /\ UNCHANGED <<argv, files, data, points, df, stdout, cats, axes, idx, saved>>

\* lines 170-209: the panel is drawn, then the title's label lookup raises
DirectionPanelNoLabel ==
    /\ pc = "direction_loop"
    /\ idx <= Len(cats)
    /\ idx <= Len(axes)
    /\ cats[idx] \notin DOMAIN direction_labels
    /\ LET direction == cats[idx]
           direction_data == RowsWhere(df, "direction", direction)
           figure == FirstFigure(direction_data)
       IN  /\ axes' = [axes EXCEPT ![idx] =
                         Drawn(direction, figure, direction_data, BinsCategory)]
           /\ opened' = opened \cup OpenedBy(figure)
           /\ err' = Error("KeyError", 209, direction)
    /\ pc' = "aborted"
    /\ UNCHANGED <<argv, files, data, points, df, stdout, cats, idx, saved>>

\* lines 215-217
DirectionSave ==
    /\ pc = "direction_loop"
    /\ idx > Len(cats)
    /\ saved' = Append(saved, Image("heatmaps_by_direction.png"))
    /\ stdout' = Append(stdout, Out("saved", "heatmaps_by_direction.png"))
    /\ pc' = "report"
    /\ UNCHANGED <<argv, files, err, opened, data, points, df, cats, axes, idx>>

\* lines 220-232
Report ==
    /\ pc = "report"
    /\ LET dirs == Unique(df, "direction")
           known == KnownPrefix(dirs)
           head == <<Out("statistics_header", ""),
                     Out("contact_type_counts", ValueCounts(df, "contactType")),
                     Out("directions_header", "")>>
       IN  IF Len(known) < Len(dirs)
           THEN /\ stdout' = stdout \o head \o DirectionLines(df, known)
                /\ err' = Error("KeyError", 225, dirs[Len(known) + 1])
                /\ pc' = "aborted"
           ELSE /\ stdout' = stdout \o head \o DirectionLines(df, known)
                               \o <<Out("mean_confidence", MeanByContactType(df)),
                                    Out("complete", "")>>
                /\ err' = err
                /\ pc' = "done"
    /\ UNCHANGED <<argv, files, opened, data, points, df, cats, axes, idx, saved>>

Next ==
    \/ Usage \/ ReadArgs \/ Load \/ LoadFails
    \/ FlattenData \/ Tabulate \/ Summary
    \/ FiguresSetup \/ FigurePanel \/ FigureSave
    \/ ContactSetup \/ ContactPanel \/ ContactPanelNoAxes \/ ContactSave
    \/ DirectionSetup \/ DirectionPanel \/ DirectionPanelNoAxes
    \/ DirectionPanelNoLabel \/ DirectionSave
    \/ Report

Spec == Init /\ [][Next]_vars

(***************************************************************************)
(* Vocabulary of the properties.                                           *)
(***************************************************************************)
OutputOrder ==
    <<"heatmaps_on_figures.png", "heatmaps_by_contacttype.png",
      "heatmaps_by_direction.png">>

KnownDirections == {"touched", "touched_by"}

LoadFailed == err.kind \in {"FileNotFoundError", "JSONDecodeError"}

\* The flatten loop (lines 22-28) has run.
Flattened == pc \notin {"start", "load", "flatten", "exited"} /\ ~LoadFailed

\* The table (line 31) has been built.
Tabulated == Flattened /\ pc # "tabulate"

SavedNames == [i \in 1..Len(saved) |-> saved[i].name]

Printed(tag) == \E i \in 1..Len(stdout) : stdout[i].tag = tag

IsDrawn(panel) == panel.category # ""

\* Every panel drawn so far: those of the saved images and of the open figure.
AllPanels ==
    UNION { { saved[i].panels[j] : j \in 1..Len(saved[i].panels) } : i \in 1..Len(saved) }
    \cup { axes[j] : j \in 1..Len(axes) }

DrawnPanels == { p \in AllPanels : IsDrawn(p) }

RECURSIVE SumOver(_, _)
SumOver(f, S) ==
    IF S = {} THEN 0
    ELSE LET x == CHOOSE y \in S : TRUE IN f[x] + SumOver(f, S \ {x})

SumSeq(s) == SumOver(s, DOMAIN s)

(***************************************************************************)
(* C1: after the flatten loop, the number of records in points equals the  *)
(* sum over the non-None elements of data of their number of (timestamp,   *)
(* point) entries; a None element contributes nothing, and the k-th entry  *)
(* of the i-th element is exactly one record of points, the one at the     *)
(* position given by the entries that precede it.                          *)
(***************************************************************************)
EntriesBefore(i) ==
    SumSeq([j \in 1..(i - 1) |-> IF data[j].isNone THEN 0 ELSE Len(data[j].items)])

C1_FlattenCount ==
    Flattened =>
        /\ Len(points) = EntriesBefore(Len(data) + 1)
        /\ \A i \in 1..Len(data) :
              ~data[i].isNone =>
                 \A k \in 1..Len(data[i].items) :
                    points[EntriesBefore(i) + k] = data[i].items[k]

C1_Witness ==
    /\ Flattened
    /\ Len(data) = 2
    /\ data[1].isNone
    /\ ~data[2].isNone
    /\ Len(data[2].items) = 2
    /\ Len(points) = 2

(***************************************************************************)
(* C2: every histogram grid drawn has 15 x 15 bins in the per-figure image *)
(* and 12 x 12 in the other two; the sum of its bin counts is the number   *)
(* of rows of the subset with xNorm and yNorm both in [0,1]; each such row *)
(* is counted in exactly the bin whose equal-width cell holds it (the last *)
(* bin for a coordinate of exactly 1), and a row with a coordinate outside *)
(* [0,1] is counted in no bin.                                             *)
(***************************************************************************)
InUnit(v) == 0 <= v /\ v <= Scale

InRange(xy) == InUnit(xy[1]) /\ InUnit(xy[2])

\* The equal-width cell of [0,1] that holds v, by arithmetic on v alone.
CellOf(v, N) == IF v = Scale THEN N ELSE ((v * N) \div Scale) + 1

CellOfRow(xy, N) == <<CellOf(xy[1], N), CellOf(xy[2], N)>>

GridCorrect(panel) ==
    LET h == panel.heatmap
        rows == panel.scatter
        inside == { k \in 1..Len(rows) : InRange(rows[k]) }
        cells == { CellOfRow(rows[k], h.bins) : k \in inside }
    IN  /\ DOMAIN h.counts = cells
        /\ \A c \in cells :
              h.counts[c] = Cardinality({ k \in inside : CellOfRow(rows[k], h.bins) = c })
        /\ SumOver(h.counts, DOMAIN h.counts) = Cardinality(inside)

C2_BinSum ==
    /\ \A p \in DrawnPanels : GridCorrect(p)
    /\ \A i \in 1..Len(saved) : \A j \in 1..Len(saved[i].panels) :
          IsDrawn(saved[i].panels[j]) =>
             saved[i].panels[j].heatmap.bins =
                IF saved[i].name = OutputOrder[1] THEN BinsFigure ELSE BinsCategory

C2_Witness ==
    \E i \in 1..Len(saved) :
       /\ saved[i].name = OutputOrder[1]
       /\ \E j \in 1..Len(saved[i].panels) :
             LET p == saved[i].panels[j]
             IN  /\ Len(p.scatter) = 2
                 /\ SumOver(p.heatmap.counts, DOMAIN p.heatmap.counts) = 1
       /\ \E j \in 1..Len(saved[i].panels) :
             BinCount(saved[i].panels[j].heatmap, BinsFigure, BinsFigure) = 1

(***************************************************************************)
(* C3: each breakdown (by figure, by contact type, by direction) is        *)
(* rendered and saved whatever the number of distinct values of its        *)
(* column: no panel loop stops for want of an axes, and a saved image      *)
(* holds exactly one drawn panel per distinct value, in first-seen order.  *)
(***************************************************************************)
ColumnOf(name) ==
    CASE name = OutputOrder[1] -> "figure"
      [] name = OutputOrder[2] -> "contactType"
      [] name = OutputOrder[3] -> "direction"

DrawnCategories(panels) ==
    LET drawn == SelectSeq(panels, IsDrawn)
    IN  [j \in 1..Len(drawn) |-> drawn[j].category]

C3_OnePanelPerValue ==
    /\ err.kind # "IndexError"
    /\ \A i \in 1..Len(saved) :
          DrawnCategories(saved[i].panels) = Unique(df, ColumnOf(saved[i].name))

(***************************************************************************)
(* C4: a lookup in direction_labels succeeds exactly for 'touched' and     *)
(* 'touched_by': every titled per-direction panel and every per-direction  *)
(* report line is for one of these two and carries 'I touched' or          *)
(* 'I was touched' respectively; a lookup that raises is for another       *)
(* value, is not caught and aborts the run, so the per-direction loop      *)
(* never goes past a value that is not one of the two.                     *)
(***************************************************************************)
LabelOf(d) == IF d = "touched" THEN "I touched" ELSE "I was touched"

InDirectionBlock == pc = "direction_loop" \/ (pc = "aborted" /\ err.line \in 170..213)

DirectionPanels ==
    UNION { { saved[i].panels[j] : j \in 1..Len(saved[i].panels) } :
            i \in { k \in 1..Len(saved) : saved[k].name = OutputOrder[3] } }
    \cup (IF InDirectionBlock THEN { axes[j] : j \in 1..Len(axes) } ELSE {})

DirectionLookupFailed == err.kind = "KeyError" /\ err.line \in {209, 225}

C4_DirectionLookup ==
    /\ \A p \in DirectionPanels :
          p.title # NoTitle =>
             /\ p.category \in KnownDirections
             /\ p.title.label = LabelOf(p.category)
    /\ \A i \in 1..Len(stdout) :
          stdout[i].tag = "direction_count" =>
             stdout[i].value.label \in {"I touched", "I was touched"}
    /\ DirectionLookupFailed => err.key \notin KnownDirections /\ pc = "aborted"
    /\ pc = "direction_loop" =>
          \A j \in 1..(idx - 1) : j <= Len(cats) => cats[j] \in KnownDirections

C4_Witness ==
    /\ DirectionLookupFailed
    /\ err.key = "pushed"
    /\ idx = 2
    /\ axes[1].title.label = "I touched"
    /\ axes[2].title = NoTitle

(***************************************************************************)
(* C5 as stated: a failed direction-label lookup happens in the Reporter   *)
(* (the per-direction report loop), after all three images were written.   *)
(***************************************************************************)
C5_FailsInReporter ==
    DirectionLookupFailed => err.line = 225 /\ SavedNames = OutputOrder

(***************************************************************************)
(* C5 as amended: when the table holds a direction other than 'touched'    *)
(* and 'touched_by', heatmaps_by_direction.png is never written and the    *)
(* Reporter never runs; a failed direction-label lookup happens in the     *)
(* Renderer's per-direction loop, at the panel title, after exactly        *)
(* heatmaps_on_figures.png and heatmaps_by_contacttype.png were written.   *)
(***************************************************************************)
HasUnknownDirection ==
    /\ Tabulated
    /\ \E i \in 1..Len(df.rows) : df.rows[i].direction \notin KnownDirections

C5_FailsInRenderer ==
    /\ HasUnknownDirection =>
          /\ pc \notin {"report", "done"}
          /\ \A i \in 1..Len(saved) : saved[i].name # OutputOrder[3]
          /\ ~Printed("statistics_header")
    /\ DirectionLookupFailed =>
          /\ HasUnknownDirection
          /\ err.line = 209
          /\ SavedNames = SubSeq(OutputOrder, 1, 2)

C5_Witness ==
    /\ HasUnknownDirection
    /\ pc = "aborted"
    /\ err = Error("KeyError", 209, "pushed")
    /\ Len(saved) = 2

(***************************************************************************)
(* C6: for each of the columns figure, contactType and direction, the row  *)
(* counts of its distinct values sum to the number of rows of the table;   *)
(* so do the point counts in the panel titles of each saved image, the     *)
(* per-contact-type counts and the per-direction counts of the report,     *)
(* which all equal the printed 'Total points recorded'.                    *)
(***************************************************************************)
GroupCounts(c) ==
    LET vals == Unique(df, c)
    IN  [i \in 1..Len(vals) |-> Len(RowsWhere(df, c, vals[i]))]

TitleCounts(panels) ==
    LET drawn == SelectSeq(panels, IsDrawn)
    IN  [j \in 1..Len(drawn) |-> drawn[j].title.points]

PrintedValues(tag) ==
    LET lines == SelectSeq(stdout, LAMBDA o : o.tag = tag)
    IN  [i \in 1..Len(lines) |-> lines[i].value]

TotalPrinted == PrintedValues("total_points")[1]

C6_GroupTotals ==
    Tabulated /\ pc # "summary" =>
        /\ TotalPrinted = Len(df.rows)
        /\ df.rows # <<>> =>
              \A c \in {"figure", "contactType", "direction"} :
                 SumSeq(GroupCounts(c)) = Len(df.rows)
        /\ \A i \in 1..Len(saved) :
              SumSeq(TitleCounts(saved[i].panels)) = TotalPrinted
        /\ \A i \in 1..Len(stdout) :
              stdout[i].tag = "contact_type_counts" =>
                 SumOver(stdout[i].value, DOMAIN stdout[i].value) = TotalPrinted
        /\ pc = "done" =>
              SumSeq([i \in 1..Len(PrintedValues("direction_count")) |->
                         PrintedValues("direction_count")[i].count]) = TotalPrinted

C6_Witness ==
    /\ pc = "done"
    /\ Len(df.rows) = 3
    /\ Len(Unique(df, "direction")) = 2
    /\ Len(Unique(df, "figure")) = 3

(***************************************************************************)
(* C7: started without a path argument, the program prints the usage line  *)
(* and exits with code 1, having opened no file, printed no summary and    *)
(* written no image; started with one, it never takes the usage path.      *)
(***************************************************************************)
C7_MissingArgument ==
    /\ Len(argv) < 2 =>
          /\ pc \in {"start", "exited"}
          /\ opened = {}
          /\ saved = <<>>
          /\ ~Printed("summary_header")
          /\ pc = "exited" =>
                /\ err = Error("SystemExit", 14, "1")
                /\ stdout = <<Out("usage", argv[1])>>
    /\ Len(argv) >= 2 => pc # "exited" /\ ~Printed("usage") /\ err.kind # "SystemExit"

C7_Witness == Len(argv) = 1 /\ pc = "exited" /\ Printed("usage")

(***************************************************************************)
(* C8: the images are written at most once each, in the order on_figures,  *)
(* by_contacttype, by_direction, so the images written are always a prefix *)
(* of that order; the statistics and the 'Analysis complete' line come     *)
(* only after all three; a run that failed is stopped for good, with       *)
(* exactly the images of the blocks that precede the failing line.         *)
(***************************************************************************)
IsPrefix(s, t) == Len(s) <= Len(t) /\ s = SubSeq(t, 1, Len(s))

Failed == err.kind # "none"

ImagesBeforeLine(line) ==
    IF line <= 105 THEN 0 ELSE IF line <= 158 THEN 1 ELSE IF line <= 216 THEN 2 ELSE 3

C8_StageOrder ==
    /\ IsPrefix(SavedNames, OutputOrder)
    /\ Printed("statistics_header") => Len(saved) = 3
    /\ Printed("complete") => Len(saved) = 3 /\ pc = "done" /\ ~Failed
    /\ Failed =>
          /\ pc \in {"aborted", "exited"}
          /\ Len(saved) = ImagesBeforeLine(err.line)
          /\ ~Printed("complete")
    /\ pc \in {"aborted", "exited", "done"} => ~ENABLED Next

C8_Witness ==
    /\ pc = "aborted"
    /\ err.kind = "IndexError"
    /\ SavedNames = <<OutputOrder[1]>>

C10_EmptyTable ==
    Flattened /\ points = <<>> =>
        /\ pc \in {"tabulate", "summary", "aborted"}
        /\ saved = <<>>
        /\ pc = "aborted" =>
              /\ err = Error("KeyError", 35, "participantId")
              /\ stdout = <<Out("summary_header", ""), Out("total_points", 0)>>

C10_Witness ==
    /\ pc = "aborted"
    /\ Flattened
    /\ points = <<>>
    /\ Len(data) = 2
    /\ data[1].isNone
    /\ data[2] = Mapping(<<>>)

====
